---------------------------- MODULE Spec2Model ----------------------------
(***************************************************************************)
(* Model of temba/api/views.py (the webhook relay, WebHookTunnelView, and  *)
(* the webhook event read view) together with the webhook event delivery   *)
(* and retry engine the views read from (temba.api.models).                *)
(*                                                                         *)
(* Strings that the program parses are sequences of one-character strings; *)
(* strings that it only passes along are TLA+ strings.                     *)
(***************************************************************************)
EXTENDS Integers, Sequences, FiniteSets, TLC

(***************************************************************************)
(* Bounds of the model.                                                    *)
(***************************************************************************)
MaxPieces == 3
MaxEvents == 1
MaxWorkers == 2

(***************************************************************************)
(* Character-sequence helpers: the behaviour of the Python string methods  *)
(* used by urlparse.parse_qs.                                              *)
(***************************************************************************)
RECURSIVE Join(_, _)
\* sep.join(parts)
Join(parts, sep) ==
    IF parts = <<>> THEN <<>>
    ELSE IF Len(parts) = 1 THEN parts[1]
    ELSE parts[1] \o sep \o Join(Tail(parts), sep)

RECURSIVE Split(_, _)
\* s.split(c) for every separator character in seps: a sequence of fields,
\* empty fields included (Python's str.split with an explicit separator).
Split(s, seps) ==
    IF \A i \in DOMAIN s : s[i] \notin seps THEN <<s>>
    ELSE LET p == CHOOSE i \in DOMAIN s :
                     /\ s[i] \in seps
                     /\ \A j \in 1..(i - 1) : s[j] \notin seps
         IN <<SubSeq(s, 1, p - 1)>> \o Split(SubSeq(s, p + 1, Len(s)), seps)

\* s.split(c, 1): at most one split, at the first occurrence of c.
SplitFirst(s, c) ==
    IF \A i \in DOMAIN s : s[i] # c THEN <<s>>
    ELSE LET p == CHOOSE i \in DOMAIN s :
                     /\ s[i] = c
                     /\ \A j \in 1..(i - 1) : s[j] # c
         IN <<SubSeq(s, 1, p - 1), SubSeq(s, p + 1, Len(s))>>

\* s.replace('+', ' ')
ReplacePlus(s) == [i \in DOMAIN s |-> IF s[i] = "+" THEN " " ELSE s[i]]

\* urllib's _hextochr, restricted to the escapes the inputs below use.
HexPairs == {<<"2", "B">>, <<"6", "1">>, <<"2", "6">>, <<"3", "D">>}
HexToChr(pair) ==
    CASE pair = <<"2", "B">> -> "+"
      [] pair = <<"6", "1">> -> "a"
      [] pair = <<"2", "6">> -> "&"
      [] pair = <<"3", "D">> -> "="

RECURSIVE unquote(_)
\* urllib.unquote: %XX becomes the character; a '%' that is not followed by
\* two hex digits stays as it is.
unquote(s) ==
    IF s = <<>> THEN <<>>
    ELSE IF /\ s[1] = "%"
            /\ Len(s) >= 3
            /\ <<s[2], s[3]>> \in HexPairs
         THEN <<HexToChr(<<s[2], s[3]>>)>> \o unquote(SubSeq(s, 4, Len(s)))
         ELSE <<s[1]>> \o unquote(Tail(s))

RECURSIVE parse_pairs(_)
\* the loop of urlparse.parse_qsl over the split fields, with
\* keep_blank_values = 0 and strict_parsing = 0
parse_pairs(fields) ==
    IF fields = <<>> THEN <<>>
    ELSE LET nv   == SplitFirst(fields[1], "=")
             rest == parse_pairs(Tail(fields))
         IN IF fields[1] = <<>> THEN rest
            ELSE IF Len(nv) # 2 THEN rest
            ELSE IF Len(nv[2]) = 0 THEN rest
            ELSE <<  <<unquote(ReplacePlus(nv[1])), unquote(ReplacePlus(nv[2]))>>  >>
                  \o rest

\* urlparse.parse_qsl(qs): the (name, value) pairs in order
parse_qsl(qs) == parse_pairs(Split(qs, {"&", ";"}))

RECURSIVE ValuesOf(_, _)
\* the values of name, in order of appearance
ValuesOf(pairs, name) ==
    IF pairs = <<>> THEN <<>>
    ELSE (IF pairs[1][1] = name THEN <<pairs[1][2]>> ELSE <<>>)
          \o ValuesOf(Tail(pairs), name)

\* urlparse.parse_qs(qs): a dict from each name to the list of its values
parse_qs(qs) ==
    LET pairs == parse_qsl(qs)
    IN [name \in {pairs[i][1] : i \in DOMAIN pairs} |-> ValuesOf(pairs, name)]

(***************************************************************************)
(* The allow-list of WebHookTunnelView.post.                               *)
(***************************************************************************)
AllowList ==
    { <<"r","e","l","a","y","e","r">>,
      <<"c","h","a","n","n","e","l">>,
      <<"s","m","s">>,
      <<"p","h","o","n","e">>,
      <<"t","e","x","t">>,
      <<"t","i","m","e">>,
      <<"c","a","l","l">>,
      <<"d","u","r","a","t","i","o","n">>,
      <<"p","o","w","e","r","_","l","e","v","e","l">>,
      <<"p","o","w","e","r","_","s","t","a","t","u","s">>,
      <<"p","o","w","e","r","_","s","o","u","r","c","e">>,
      <<"n","e","t","w","o","r","k","_","t","y","p","e">>,
      <<"p","e","n","d","i","n","g","_","m","e","s","s","a","g","e","_","c","o","u","n","t">>,
      <<"r","e","t","r","y","_","m","e","s","s","a","g","e","_","c","o","u","n","t">>,
      <<"l","a","s","t","_","s","e","e","n">>,
      <<"e","v","e","n","t">>,
      <<"s","t","e","p">>,
      <<"v","a","l","u","e","s">>,
      <<"f","l","o","w">>,
      <<"r","e","l","a","y","e","r","_","p","h","o","n","e">> }

\* outgoing_data: the entries of incoming_data whose key is on the allow-list
FilterAllowedMutant(incoming_data) == incoming_data
FilterAllowed(incoming_data) ==
    [key \in {k \in DOMAIN incoming_data : k \in AllowList} |-> incoming_data[key]]

(***************************************************************************)
(* The relay's inputs.  DataPieces are form-encoded fragments; a data      *)
(* string is up to MaxPieces of them joined with '&'.                      *)
(***************************************************************************)
\* 'relayer=5'
PieceRelayer == <<"r","e","l","a","y","e","r","=","5">>
\* 'bogus=1'
PieceBogus == <<"b","o","g","u","s","=","1">>
\* 'phone=%2B250788123123'
PiecePhone == <<"p","h","o","n","e","=","%","2","B","2","5","0","7","8","8","1","2","3","1","2","3">>
\* 'c%61ll=1'
PieceEncodedKey == <<"c","%","6","1","l","l","=","1">>
\* 'text='
PieceBlank == <<"t","e","x","t","=">>
\* 'flow'
PieceNoEquals == <<"f","l","o","w">>
\* 'sms=1;x=2'
PieceSemicolon == <<"s","m","s","=","1",";","x","=","2">>
\* 'text=a+b%z'
PiecePlus == <<"t","e","x","t","=","a","+","b","%","z">>
\* 'relayer=6'
PieceRepeat == <<"r","e","l","a","y","e","r","=","6">>
DataPieces == {PieceRelayer, PieceBogus, PiecePhone, PieceEncodedKey, PieceBlank, PieceNoEquals, PieceSemicolon, PiecePlus, PieceRepeat}

RECURSIVE SeqsUpTo(_, _)
\* the sequences over S of length at most n
SeqsUpTo(S, n) ==
    IF n = 0 THEN {<<>>}
    ELSE LET shorter == SeqsUpTo(S, n - 1)
         IN shorter \cup {Append(q, x) : q \in shorter, x \in S}

DataStrings == {Join(q, <<"&">>) : q \in SeqsUpTo(DataPieces, MaxPieces)}

\* "http://x" is a URL requests accepts; "" and "x" have no scheme
UrlStrings == {"http://x", "", "x"}

\* request.POST: the form fields present in the request; either field may be
\* absent
Requests ==
    {[url |-> u, data |-> d] : u \in UrlStrings, d \in DataStrings}
    \cup {[url |-> u] : u \in UrlStrings}
    \cup {[data |-> d] : d \in DataStrings}
    \cup {[field \in {} |-> ""]}

MissingMessage == "Must include both 'url' and 'data' parameters."
TimeoutSeconds == 3

\* requests.post(url, data=..., timeout=3): what the call can do.  A URL
\* without a scheme raises before anything is sent; otherwise the destination
\* answers with some body (whatever its status code), or the transport fails.
TransportOutcomes(url) ==
    IF url = "http://x"
    THEN { [kind |-> "response", text |-> "OK"],
           [kind |-> "response", text |-> ""],
           [kind |-> "error", text |-> "Connection refused"],
           [kind |-> "error", text |-> "Read timed out"] }
    ELSE { [kind |-> "error", text |-> "Invalid URL: No schema supplied"] }

VARIABLES
    POST,        \* the form fields of the relay request being handled
    relay_pc,    \* "idle", "received" or "done"
    calls,       \* the requests.post calls made while handling the request
    transport,   \* what each of those calls did (a response or an error)
    response,    \* the HttpResponse returned to the caller
    events,      \* Event Store: id -> row
    attempts,    \* Attempt Log: event id -> sequence of Attempt rows
    workers      \* dispatch workers: position, claimed event, row read

relayVars == <<POST, relay_pc, calls, transport, response>>
engineVars == <<events, attempts, workers>>
vars == <<POST, relay_pc, calls, transport, response, events, attempts, workers>>

NoResponse == [status |-> 0, body |-> ""]

\* the "not 'url' in request.POST or not 'data' in request.POST" test
MissingParamsMutant(form) == "url" \notin DOMAIN form
MissingParams(form) == "url" \notin DOMAIN form \/ "data" \notin DOMAIN form

\* the body and status of the final HttpResponse(result): the response text
\* when a response came back, str(e) when the call raised
RelayResultMutant(outcome) ==
    IF outcome.kind = "error"
    THEN [status |-> 500, body |-> "Internal Server Error"]
    ELSE [status |-> 200, body |-> outcome.text]
RelayResult(outcome) == [status |-> 200, body |-> outcome.text]

\* A relay request arrives.
Receive ==
    /\ relay_pc = "idle"
    /\ \E form \in Requests : POST' = form
    /\ relay_pc' = "received"
    /\ calls' = <<>>
    /\ transport' = <<>>
    /\ response' = NoResponse
    /\ UNCHANGED engineVars

\* WebHookTunnelView.post, the whole handler.
Post ==
    /\ relay_pc = "received"
    /\ relay_pc' = "done"
    /\ IF MissingParams(POST)
       THEN /\ response' = [status |-> 400, body |-> MissingMessage]
            /\ UNCHANGED <<calls, transport>>
       ELSE IF "url" \notin DOMAIN POST \/ "data" \notin DOMAIN POST
       THEN \* request.POST[...] raises, caught by "except Exception"
            /\ response' = RelayResult([kind |-> "error", text |-> "KeyError"])
            /\ UNCHANGED <<calls, transport>>
       ELSE LET url == POST["url"]
                data == POST["data"]
                incoming_data == parse_qs(data)
                outgoing_data == FilterAllowed(incoming_data)
            IN \E outcome \in TransportOutcomes(url) :
                  /\ calls' = Append(calls, [url |-> url, data |-> outgoing_data,
                                             timeout |-> TimeoutSeconds])
                  /\ transport' = Append(transport, outcome)
                  /\ response' = RelayResult(outcome)
    /\ UNCHANGED <<POST, engineVars>>

\* The response has been sent; nothing of the request is kept (the view has
\* no state of its own).
Finish ==
    /\ relay_pc = "done"
    /\ relay_pc' = "idle"
    /\ POST' = [field \in {} |-> ""]
    /\ calls' = <<>>
    /\ transport' = <<>>
    /\ response' = NoResponse
    /\ UNCHANGED engineVars

RelayNext == Receive \/ Post \/ Finish

(***************************************************************************)
(* The read view, WebHookEventReadView and WebHookEventMixin.              *)
(***************************************************************************)
\* WebHookEventMixin.get_tries
get_tries(obj) == obj.try_count

\* WebHookEventReadView.get_next_attempt
get_next_attempt(obj) ==
    IF obj.next_attempt # <<>> THEN "Around next_attempt"
    ELSE IF obj.try_count = 3
         THEN "Never, three attempts errored, failed permanently"
         ELSE IF obj.status = "C"
              THEN "Never, event delivered successfully"
              ELSE "Never, event deliverey failed permanently"

\* WebHookEventReadView.get_context_data: the Attempt rows of the event
results(e) == attempts[e]

(***************************************************************************)
(* The delivery and retry engine (temba.api.models, not part of the views  *)
(* file), as the specification describes it.  Status codes are the single  *)
(* characters the views use: Q queued, E errored, F failed, C completed.   *)
(*                                                                         *)
(* Time is kept relative to the present: next_attempt is <<>> when absent  *)
(* and <<d>> when the event is due in d time units, d = 0 meaning that the *)
(* scheduled time has been reached or has passed.                          *)
(***************************************************************************)
MaxAttempts == 3
BaseInterval == 1
BackoffCap == 2

EventIds == 1..MaxEvents
Workers == 1..MaxWorkers
Terminal == {"C", "F"}
Outcomes == {"Success", "NetworkError", "Timeout"}

NoEvent == [created |-> FALSE, has_url |-> FALSE, status |-> "Q",
            try_count |-> 0, next_attempt |-> <<>>]
Idle == [pc |-> "idle", event |-> 0, seen |-> NoEvent]

RECURSIVE Pow2(_)
Pow2(n) == IF n <= 0 THEN 1 ELSE 2 * Pow2(n - 1)

\* backoff(n) = baseInterval * 2^(n-1), capped
backoff(n) ==
    LET d == BaseInterval * Pow2(n - 1)
    IN IF d > BackoffCap THEN BackoffCap ELSE d

\* Attempt Log: a row.  Rows are append-only and no operation of the engine
\* reads one back, so a row carries its key only (event_id, attempt_index);
\* the outcome it records is the one the worker hands to the scheduler.
NewAttempt(e, index) == [event_id |-> e, attempt_index |-> index]

\* Event Store, create: Queued, try_count = 0, next_attempt = now
NewEvent(has_url) ==
    [created |-> TRUE, has_url |-> has_url, status |-> "Q",
     try_count |-> 0, next_attempt |-> <<0>>]

\* the condition of listDue on one row: Queued or Errored, next_attempt <= now
IsDueMutant(row) ==
    /\ row.created
    /\ row.status = "Q"
    /\ row.next_attempt = <<0>>
IsDue(row) ==
    /\ row.created
    /\ row.status \in {"Q", "E"}
    /\ row.next_attempt = <<0>>

\* Event Store, listDue(now)
listDue == {e \in EventIds : IsDue(events[e])}

\* Retry Scheduler: the row after an attempt with this outcome
ScheduleMutant(row, outcome) ==
    IF outcome = "Success"
    THEN [row EXCEPT !.status = "C", !.next_attempt = <<>>,
                     !.try_count = row.try_count + 1]
    ELSE [row EXCEPT !.status = "E", !.next_attempt = <<0>>,
                     !.try_count = row.try_count + 2]
Schedule(row, outcome) ==
    IF outcome = "Success"
    THEN [row EXCEPT !.status = "C", !.next_attempt = <<>>,
                     !.try_count = row.try_count + 1]
    ELSE LET n == row.try_count + 1
         IN IF n >= MaxAttempts
            THEN [row EXCEPT !.status = "F", !.next_attempt = <<>>,
                             !.try_count = n]
            ELSE [row EXCEPT !.status = "E", !.next_attempt = <<backoff(n)>>,
                             !.try_count = n]

\* Event Store, update: the compare of the compare-and-set on the whole row
CasMatchesMutant(row, seen) == TRUE
CasMatches(row, seen) == row = seen

\* An external producer enqueues an event.
Create(e) ==
    /\ ~events[e].created
    /\ \E has_url \in BOOLEAN : events' = [events EXCEPT ![e] = NewEvent(has_url)]
    /\ UNCHANGED <<attempts, workers, relayVars>>

\* One time unit passes.
Tick ==
    /\ events' = [e \in EventIds |->
                    IF events[e].next_attempt # <<>> /\ events[e].next_attempt[1] > 0
                    THEN [events[e] EXCEPT !.next_attempt = <<events[e].next_attempt[1] - 1>>]
                    ELSE events[e]]
    /\ UNCHANGED <<attempts, workers, relayVars>>

\* Dispatcher polling loop: an idle worker takes an event from listDue.  An
\* event without a destination_url is never delivered.
Pick(w, e) ==
    /\ workers[w].pc = "idle"
    /\ e \in listDue
    /\ events[e].has_url
    /\ workers' = [workers EXCEPT ![w] = [Idle EXCEPT !.pc = "picked", !.event = e]]
    /\ UNCHANGED <<events, attempts, relayVars>>

\* The worker re-reads the row and verifies that it is still Queued or
\* Errored and due; otherwise another worker advanced it and this one aborts.
Verify(w) ==
    /\ workers[w].pc = "picked"
    /\ LET row == events[workers[w].event]
       IN IF IsDue(row)
          THEN workers' = [workers EXCEPT ![w].pc = "verified", ![w].seen = row]
          ELSE workers' = [workers EXCEPT ![w] = Idle]
    /\ UNCHANGED <<events, attempts, relayVars>>

\* Dispatcher, attempt(event): the single outbound call, classified; the
\* Attempt row is appended first; then the outcome goes to the Retry
\* Scheduler, which updates the row by compare-and-set against the row the
\* worker verified.  On a conflict the event is left alone and the worker
\* does not retry.  The call touches no shared state and the append is
\* never contended, so the three are one step up to the compare-and-set.
Attempt(w) ==
    /\ workers[w].pc = "verified"
    /\ LET e == workers[w].event
       IN \E outcome \in Outcomes :
             /\ attempts' = [attempts EXCEPT ![e] = Append(@, NewAttempt(e, Len(@) + 1))]
             /\ IF CasMatches(events[e], workers[w].seen)
                THEN events' = [events EXCEPT ![e] = Schedule(workers[w].seen, outcome)]
                ELSE UNCHANGED events
    /\ workers' = [workers EXCEPT ![w] = Idle]
    /\ UNCHANGED relayVars

WorkerStep(w) ==
    \/ \E e \in EventIds : Pick(w, e)
    \/ Verify(w)
    \/ Attempt(w)

EngineNext ==
    \/ \E e \in EventIds : Create(e)
    \/ Tick
    \/ \E w \in Workers : WorkerStep(w)

(***************************************************************************)
(* Specifications.                                                         *)
(***************************************************************************)
Init ==
    /\ POST = [field \in {} |-> ""]
    /\ relay_pc = "idle"
    /\ calls = <<>>
    /\ transport = <<>>
    /\ response = NoResponse
    /\ events = [e \in EventIds |-> NoEvent]
    /\ attempts = [e \in EventIds |-> <<>>]
    /\ workers = [w \in Workers |-> Idle]

\* the relay alone
RelaySpec == Init /\ [][RelayNext]_vars

\* the delivery engine alone
EngineSpec == Init /\ [][EngineNext]_vars

\* the delivery engine when time keeps advancing and every dispatch worker
\* keeps being scheduled
EngineLiveSpec ==
    /\ Init
    /\ [][EngineNext]_vars
    /\ WF_vars(Tick)
    /\ \A w \in Workers : WF_vars(WorkerStep(w))

(***************************************************************************)
(* Properties of the relay (checked under RelaySpec).                      *)
(***************************************************************************)
BothPresent == "url" \in DOMAIN POST /\ "data" \in DOMAIN POST

\* 'relayer=5&bogus=1&phone=%2B250788123123'
ExampleData == Join(<<PieceRelayer, PieceBogus, PiecePhone>>, <<"&">>)
ExamplePayload ==
    (<<"r","e","l","a","y","e","r">> :> << <<"5">> >>)
    @@ (<<"p","h","o","n","e">> :> << <<"+","2","5","0","7","8","8","1","2","3","1","2","3">> >>)

\* C1: the payload the relay forwards has exactly the allow-listed keys of the
\* parsed data, each with its parsed values unchanged, and no other key; for
\* 'relayer=5&bogus=1&phone=%2B250788123123' it is relayer and phone only,
\* an encoded key ('c%61ll') counts under its decoded name, and a key with a
\* blank value or without '=' is not in the parsed data at all.
C1_AllowListFilter ==
    (relay_pc = "done" /\ calls # <<>>) =>
        LET parsed == parse_qs(POST["data"])
            payload == calls[1].data
        IN /\ DOMAIN payload \subseteq AllowList
           /\ DOMAIN payload \subseteq DOMAIN parsed
           /\ \A k \in DOMAIN parsed :
                 /\ k \in AllowList => k \in DOMAIN payload
                 /\ k \in DOMAIN payload => payload[k] = parsed[k]
           /\ POST["data"] = ExampleData => payload = ExamplePayload
           /\ POST["data"] = PieceEncodedKey =>
                 payload = (<<"c","a","l","l">> :> << <<"1">> >>)
           /\ POST["data"] = PieceBlank => DOMAIN payload = {}
           /\ POST["data"] = PieceNoEquals => DOMAIN payload = {}
           /\ POST["data"] = PieceBogus => DOMAIN payload = {}

C1_Witness ==
    /\ relay_pc = "done"
    /\ BothPresent
    /\ POST["data"] = ExampleData
    /\ Len(calls) = 1
    /\ calls[1].data = ExamplePayload

\* C2: a request without the 'url' field or without the 'data' field is
\* answered with status 400 and the fixed message, and nothing is forwarded.
C2_MissingFieldRejected ==
    (relay_pc = "done" /\ ~BothPresent) =>
        /\ response = [status |-> 400, body |-> MissingMessage]
        /\ calls = <<>>
        /\ transport = <<>>

C2_Witness ==
    /\ relay_pc = "done"
    /\ "url" \in DOMAIN POST
    /\ "data" \notin DOMAIN POST
    /\ response.status = 400

C10_EmptyInputRejected ==
    (/\ relay_pc = "done"
     /\ BothPresent
     /\ (POST["url"] = "" \/ POST["data"] = <<>>)) =>
        /\ response = [status |-> 400, body |-> MissingMessage]
        /\ calls = <<>>

(***************************************************************************)
(* Properties of the delivery engine (checked under EngineSpec, the        *)
(* liveness property under EngineLiveSpec).                                *)
(***************************************************************************)
\* the workers that are in the middle of a dispatch of event e
Holding(e) == {w \in Workers : workers[w].pc # "idle" /\ workers[w].event = e}

\* C4: of two workers that took the same due event, exactly one writes an
\* Attempt row and advances the event; the other writes nothing.  Hence a
\* step that adds an Attempt row to an event adds exactly one and advances
\* that event (its try_count goes up by one), whatever the interleaving.
C4_LoserWritesNothing ==
    [][\A e \in EventIds :
          Len(attempts'[e]) # Len(attempts[e]) =>
             /\ Len(attempts'[e]) = Len(attempts[e]) + 1
             /\ events'[e] # events[e]
             /\ events'[e].try_count = events[e].try_count + 1]_vars

C6_AttemptsEqualTries ==
    \A e \in EventIds :
        (events[e].created /\ events[e].status \in Terminal /\ Holding(e) = {}) =>
            Len(results(e)) = get_tries(events[e])

\* C7: try_count = 3 implies status Failed and next_attempt absent; status
\* Completed implies next_attempt absent; so when the read view reports
\* "three attempts errored, failed permanently" the event is Failed.
C7_DataModelInvariant ==
    \A e \in EventIds :
        events[e].created =>
            /\ events[e].try_count = 3 =>
                  (events[e].status = "F" /\ events[e].next_attempt = <<>>)
            /\ events[e].status = "C" => events[e].next_attempt = <<>>
            /\ get_next_attempt(events[e])
                  = "Never, three attempts errored, failed permanently" =>
               events[e].status = "F"

\* C8: a Completed or Failed event is never in listDue, and no step changes
\* its row (status, try_count, next_attempt) afterwards.
C8_TerminalAbsorbing ==
    /\ [](\A e \in EventIds :
            (events[e].created /\ events[e].status \in Terminal) =>
                /\ e \notin listDue
                /\ events[e].next_attempt = <<>>)
    /\ [][\A e \in EventIds :
            (events[e].created /\ events[e].status \in Terminal) =>
                events'[e] = events[e]]_vars

\* a worker about to commit against an event that has meanwhile become
\* terminal
C8_Witness ==
    \E e \in EventIds : \E w \in Workers :
        /\ events[e].status \in Terminal
        /\ workers[w].pc = "verified"
        /\ workers[w].event = e

=============================================================================
